---- MODULE Spec2Model ----
(***************************************************************************)
(* Model of .codex/aggregate_tasks.mjs: the task aggregator that fetches   *)
(* issues / pull requests from the GitHub search API and pages from a      *)
(* Notion database, normalizes both into one Task shape, computes totals   *)
(* and writes out/tasks.json.                                              *)
(*                                                                         *)
(* JavaScript strings are modelled as sequences of one-character strings,  *)
(* so that toLowerCase, split, trim and the regular expressions are        *)
(* computed rather than assumed.                                           *)
(***************************************************************************)
EXTENDS Integers, Sequences, FiniteSets, TLC

(***************************************************************************)
(* Characters and strings                                                  *)
(***************************************************************************)
UpperChars == <<"A","B","C","D","E","F","G","H","I","J","K","L","M","N","O","P","Q","R","S","T","U","V","W","X","Y","Z">>
LowerChars == <<"a","b","c","d","e","f","g","h","i","j","k","l","m","n","o","p","q","r","s","t","u","v","w","x","y","z">>
DigitChars == <<"0","1","2","3","4","5","6","7","8","9">>

Range(s) == { s[i] : i \in 1..Len(s) }

IsDigit(c) == c \in Range(DigitChars)
\* \w of a JavaScript regular expression
IsWordChar(c) == c \in Range(UpperChars) \cup Range(LowerChars) \cup Range(DigitChars) \cup {"_"}
\* \s of a JavaScript regular expression, and the characters trim() strips
IsSpace(c) == c = " "

LowerChar(c) ==
    IF c \in Range(UpperChars)
      THEN LowerChars[CHOOSE i \in 1..Len(UpperChars) : UpperChars[i] = c]
      ELSE c

\* String.prototype.toLowerCase
toLowerCase(s) == [i \in 1..Len(s) |-> LowerChar(s[i])]

DigitVal(c) == (CHOOSE i \in 1..Len(DigitChars) : DigitChars[i] = c) - 1

\* parseInt(s, 10) of a non-empty run of digits
RECURSIVE parseInt(_)
parseInt(s) ==
    IF s = << >> THEN 0
    ELSE 10 * parseInt(SubSeq(s, 1, Len(s) - 1)) + DigitVal(s[Len(s)])

Max(a, b) == IF a >= b THEN a ELSE b
Min(a, b) == IF a <= b THEN a ELSE b

\* s has the literal w at position i
HasAt(s, i, w) == i >= 1 /\ i + Len(w) - 1 <= Len(s) /\ SubSeq(s, i, i + Len(w) - 1) = w

\* an unanchored regular expression that is a plain literal: /w/.test(s)
Contains(s, w) == \E i \in 1..(Len(s) + 1) : HasAt(s, i, w)

\* \b between positions i-1 and i of s
WordBoundary(s, i) ==
    (i > 1 /\ i - 1 <= Len(s) /\ IsWordChar(s[i - 1])) # (i >= 1 /\ i <= Len(s) /\ IsWordChar(s[i]))

\* the last position of the run matched by \d+ starting at d when \b must follow it
\* (0 when there is none); the run is forced to be maximal by the \b
DigitsThenBoundary(s, d) ==
    LET ends == { e \in d..Len(s) :
                    /\ \A k \in d..e : IsDigit(s[k])
                    /\ WordBoundary(s, e + 1) }
    IN IF d >= 1 /\ ends # {} THEN CHOOSE e \in ends : TRUE ELSE 0

\* [:= -]
IsSep(c) == c \in {":", "=", " ", "-"}

\* one attempt of /\b<w>[:= -]?(\d+)\b/ at position i: the captured digits, or << >>
PrefixMatchAt(s, i, w) ==
    IF ~(WordBoundary(s, i) /\ HasAt(s, i, w)) THEN << >>
    ELSE LET a == i + Len(w)
             withSep == IF a <= Len(s) /\ IsSep(s[a]) THEN DigitsThenBoundary(s, a + 1) ELSE 0
             noSep   == DigitsThenBoundary(s, a)
         IN IF withSep # 0 THEN SubSeq(s, a + 1, withSep)
            ELSE IF noSep # 0 THEN SubSeq(s, a, noSep)
            ELSE << >>

\* s.match(/\bp[:= -]?(\d+)\b/): group 1 of the leftmost match, or << >>
MatchP(s) ==
    LET hits == { i \in 1..Len(s) : PrefixMatchAt(s, i, <<"p">>) # << >> }
    IN IF hits = {} THEN << >>
       ELSE PrefixMatchAt(s, CHOOSE i \in hits : \A j \in hits : i <= j, <<"p">>)

\* one attempt of /\bpoints?[:= -]?(\d+)\b/ at position i
PointsAt(s, i) ==
    IF PrefixMatchAt(s, i, <<"p","o","i","n","t","s">>) # << >> THEN PrefixMatchAt(s, i, <<"p","o","i","n","t","s">>)
    ELSE PrefixMatchAt(s, i, <<"p","o","i","n","t">>)

\* s.match(/\bpoints?[:= -]?(\d+)\b/)
MatchPoints(s) ==
    LET hits == { i \in 1..Len(s) : PointsAt(s, i) # << >> }
    IN IF hits = {} THEN << >>
       ELSE PointsAt(s, CHOOSE i \in hits : \A j \in hits : i <= j)

\* one attempt of /\b(\d+)\s*points?\b/ at position i
NumPointsAt(s, i) ==
    LET ends == { e \in i..Len(s) :
                    /\ \A k \in i..e : IsDigit(s[k])
                    /\ \E w \in e..Len(s) :
                         /\ \A k \in (e + 1)..w : IsSpace(s[k])
                         /\ \/ HasAt(s, w + 1, <<"p","o","i","n","t","s">>) /\ WordBoundary(s, w + 7)
                            \/ HasAt(s, w + 1, <<"p","o","i","n","t">>) /\ WordBoundary(s, w + 6) }
    IN IF WordBoundary(s, i) /\ ends # {}
         THEN SubSeq(s, i, CHOOSE e \in ends : \A f \in ends : f <= e)
         ELSE << >>

\* s.match(/\b(\d+)\s*points?\b/)
MatchNumPoints(s) ==
    LET hits == { i \in 1..Len(s) : NumPointsAt(s, i) # << >> }
    IN IF hits = {} THEN << >>
       ELSE NumPointsAt(s, CHOOSE i \in hits : \A j \in hits : i <= j)

(***************************************************************************)
(* GitHub normalizer.  A raw search item is                                *)
(*   [repository_url, labels, pull_request, state]                         *)
(* with labels the sequence of label names (l.name || "").  A Task is      *)
(*   [source, type, repo, points, tags, status, progress];                 *)
(* number, title and url are copied through unread and are left out.       *)
(* progress is Num(n) with n in units of 1/ProgressOne, or NaN.            *)
(***************************************************************************)
ProgressOne == 100000

\* per_page and the page limit of search; the slice(0, 6) of tags
PerPage == 100
MaxPages == 2
TagLimit == 6

\* JavaScript values that can be undefined, null or of several types
Undef == [k |-> "undefined"]
Null == [k |-> "null"]
NaN == [k |-> "NaN"]
Str(s) == [k |-> "string", v |-> s]
Num(n) == [k |-> "number", v |-> n]
Bool(b) == [k |-> "boolean", v |-> b]
List(l) == [k |-> "array", v |-> l]

\* ToBoolean
Truthy(j) ==
    CASE j.k = "string" -> j.v # << >>
      [] j.k = "number" -> j.v # 0
      [] j.k = "boolean" -> j.v
      [] j.k = "array" -> TRUE
      [] OTHER -> FALSE

\* a || b
Or(a, b) == IF Truthy(a) THEN a ELSE b

\* the first m[1] found by the three patterns, tried in order on one lower-cased label
PointsMatch(s) ==
    IF MatchP(s) # << >> THEN MatchP(s)
    ELSE IF MatchPoints(s) # << >> THEN MatchPoints(s)
    ELSE MatchNumPoints(s)

RECURSIVE parsePoints(_)
parsePoints(labels) ==
    IF labels = << >> THEN 1
    ELSE LET m == PointsMatch(toLowerCase(Head(labels)))
         IN IF m # << >> THEN Max(1, parseInt(m)) ELSE parsePoints(Tail(labels))

\* names.some(n => /a|b|c/.test(n))
SomeContains(names, alts) ==
    \E i \in 1..Len(names) : \E w \in alts : Contains(names[i], w)

guessType(labels, fallback) ==
    LET names == [i \in 1..Len(labels) |-> toLowerCase(labels[i])]
    IN IF SomeContains(names, {<<"b","u","g">>, <<"f","i","x">>, <<"d","e","f","e","c","t">>}) THEN <<"b","u","g">>
       ELSE IF SomeContains(names, {<<"d","o","c">>, <<"d","o","c","s">>}) THEN <<"d","o","c","s">>
       ELSE IF SomeContains(names, {<<"f","e","a","t">>, <<"f","e","a","t","u","r","e">>, <<"e","n","h","a","n","c","e","m","e","n","t">>}) THEN <<"f","e","a","t","u","r","e">>
       ELSE IF SomeContains(names, {<<"i","n","f","r","a">>, <<"o","p","s">>, <<"d","e","v","o","p","s">>}) THEN <<"i","n","f","r","a">>
       ELSE IF SomeContains(names, {<<"t","a","s","k">>, <<"c","h","o","r","e">>}) THEN <<"t","a","s","k">>
       ELSE IF fallback # << >> THEN fallback ELSE <<"t","a","s","k">>

\* Array.prototype.slice(0, n)
Slice(l, n) == SubSeq(l, 1, Min(Len(l), n))

IsTag(n) ==
    /\ n # << >>
    /\ MatchP(toLowerCase(n)) = << >>
    /\ MatchPoints(toLowerCase(n)) = << >>

takeTags(labels) == Slice(SelectSeq(labels, IsTag), TagLimit)

\* repository_url.split("/").slice(-1)[0]
repoFromUrl(url) ==
    LET slashes == { i \in 1..Len(url) : url[i] = "/" }
        last == IF slashes = {} THEN 0 ELSE CHOOSE i \in slashes : \A j \in slashes : j <= i
    IN SubSeq(url, last + 1, Len(url))

\* the callback of all.map in fetchGithubTasks
GithubTask(it) ==
    LET status == IF it.state = "closed" THEN "done" ELSE "open"
    IN [ source   |-> "github",
         type     |-> guessType(it.labels, IF it.pull_request THEN <<"p","r">> ELSE <<"i","s","s","u","e">>),
         repo     |-> Str(repoFromUrl(it.repository_url)),
         points   |-> parsePoints(it.labels),
         tags     |-> takeTags(it.labels),
         status   |-> status,
         progress |-> Num(IF status = "done" THEN ProgressOne ELSE 0) ]

(***************************************************************************)
(* Notion normalizer.  page.properties is a function from property names   *)
(* to property objects [type |-> t, <t> |-> value], as the Notion API      *)
(* returns them; a name outside its domain is an absent property.          *)
(***************************************************************************)
\* join("") of the plain_text of a rich text array
RECURSIVE JoinPlain(_)
JoinPlain(rt) == IF rt = << >> THEN << >> ELSE Head(rt).plain_text \o JoinPlain(Tail(rt))

\* String.prototype.trim
RECURSIVE trim(_)
trim(s) ==
    IF s = << >> THEN s
    ELSE IF IsSpace(Head(s)) THEN trim(Tail(s))
    ELSE IF IsSpace(s[Len(s)]) THEN trim(SubSeq(s, 1, Len(s) - 1))
    ELSE s

prop(p, name) ==
    IF name \notin DOMAIN p THEN Undef
    ELSE LET v == p[name]
         IN CASE v.type = "title" -> Str(trim(JoinPlain(v.title)))
              [] v.type = "rich_text" -> Str(trim(JoinPlain(v.rich_text)))
              [] v.type = "url" -> IF v.url = Null THEN Undef ELSE Or(Str(v.url), Undef)
              [] v.type = "select" -> IF v.select = Null THEN Undef ELSE Str(v.select.name)
              [] v.type = "status" -> IF v.status = Null THEN Undef ELSE Str(v.status.name)
              [] v.type = "multi_select" ->
                   List([i \in 1..Len(v.multi_select) |-> v.multi_select[i].name])
              [] v.type = "number" -> IF v.number = Null THEN Undef ELSE v.number
              [] v.type = "checkbox" -> Bool(v.checkbox)
              [] OTHER -> Undef

\* Array.prototype.join(",") of strings
RECURSIVE JoinComma(_)
JoinComma(l) ==
    IF l = << >> THEN << >>
    ELSE IF Len(l) = 1 THEN l[1]
    ELSE l[1] \o <<",">> \o JoinComma(Tail(l))

\* Number.prototype.toString of a non-negative integer
RECURSIVE Decimal(_)
Decimal(n) == IF n < 10 THEN <<DigitChars[n + 1]>> ELSE Decimal(n \div 10) \o <<DigitChars[(n % 10) + 1]>>

\* x.toString()
toString(j) ==
    CASE j.k = "string" -> j.v
      [] j.k = "array" -> JoinComma(j.v)
      [] j.k = "boolean" -> IF j.v THEN <<"t","r","u","e">> ELSE <<"f","a","l","s","e">>
      [] j.k = "number" -> IF j.v >= 0 THEN Decimal(j.v) ELSE <<"-">> \o Decimal(0 - j.v)

normRepo(val) ==
    IF ~Truthy(val) THEN Undef
    ELSE IF val.k = "array" THEN (IF val.v = << >> THEN Undef ELSE Str(val.v[1]))
    ELSE Str(toString(val))

\* Number(x)
Number(j) ==
    CASE j.k = "number" -> j
      [] j.k = "boolean" -> Num(IF j.v THEN 1 ELSE 0)
      [] j.k = "string" ->
           IF \A i \in 1..Len(trim(j.v)) : IsDigit(trim(j.v)[i]) THEN Num(parseInt(trim(j.v))) ELSE NaN
      [] j.k = "array" ->
           IF j.v = << >> THEN Num(0)
           ELSE IF Len(j.v) = 1 /\ \A i \in 1..Len(trim(j.v[1])) : IsDigit(trim(j.v[1])[i])
             THEN Num(parseInt(trim(j.v[1])))
           ELSE NaN
      [] OTHER -> NaN

\* Math.max(0, Math.min(1, x)) in units of 1/ProgressOne
Clamp01(x) == Max(0, Min(ProgressOne, x))

\* the number the comparison and Math.min make of v, in units of 1/ProgressOne:
\* a Notion number is held in these units already, anything else is converted
ProgressNumber(v) ==
    IF v.k = "number" THEN v
    ELSE IF Number(v) = NaN THEN NaN
    ELSE Num(Number(v).v * ProgressOne)

\* v == null gives undefined; 1.001 is ProgressOne + ProgressOne/1000; a value that
\* is not a number fails v > 1.001 and comes out of Math.max/Math.min as NaN
normProgress(v) ==
    IF v = Undef \/ v = Null THEN Undef
    ELSE LET n == ProgressNumber(v)
         IN IF n = NaN THEN NaN
            ELSE IF n.v > ProgressOne + ProgressOne \div 1000 THEN Num(Clamp01(n.v \div 100))
            ELSE Num(Clamp01(n.v))

\* "U+2705" stands for the one-character check mark glyph of the source
DoneWords == {<<"d","o","n","e">>, <<"s","h","i","p","p","e","d">>, <<"c","o","m","p","l","e","t","e">>, <<"c","l","o","s","e","d">>, <<"U+2705">>}

\* the body of the for loop over data.results in fetchNotionTasks
NotionTask(page) ==
    LET p       == page.properties
        statusN == toLowerCase(toString(Or(Or(prop(p, "Status"), prop(p, "status")), Str(<< >>))))
        done    == statusN \in DoneWords
        repo    == normRepo(Or(prop(p, "Repo"), prop(p, "Repository")))
        type    == toLowerCase(toString(Or(prop(p, "Type"), Str(<<"t","a","s","k">>))))
        tags    == Or(prop(p, "Tags"), List(<< >>))
        points  == Or(Or(prop(p, "Points"), prop(p, "pts")), Num(1))
        prog    == normProgress(prop(p, "Progress"))
    IN [ source   |-> "notion",
         type     |-> type,
         repo     |-> repo,
         points   |-> Max(1, Or(Number(points), Num(1)).v),
         tags     |-> IF tags.k = "array" THEN Slice(tags.v, TagLimit) ELSE << >>,
         status   |-> IF done THEN "done" ELSE "open",
         progress |-> IF prog # Undef THEN prog ELSE Num(IF done THEN ProgressOne ELSE 0) ]

(***************************************************************************)
(* The run.  One process: the module body runs synchronously up to the     *)
(* await of Promise.all (Ensure, LaunchGithub, LaunchNotion); after that   *)
(* every action is the continuation run when one awaited promise settles.  *)
(***************************************************************************)
VARIABLES
    env,          \* process.env: GH_TOKEN, NOTION_TOKEN, NOTION_TASKS_DB, SUBSET (as SUBSET_ENV)
    mainPc,       \* position of the module body / the main async function
    exitCode,     \* -1 while the process runs
    ghPc,         \* fetchGithubTasks: "idle", "waiting" (on gh_get), "done", "failed"
    ghQ,          \* which search runs: 1 = issues, 2 = pull requests
    ghPage,       \* page of the for loop in search
    ghAll,        \* all
    ghReqs,       \* the gh_get requests issued, in order
    ghResps,      \* items.length of each response received, -1 for a failed request
    ghResult,     \* gh of main
    notionPc,     \* fetchNotionTasks: "idle", "waiting" (on notion_post), "done", "failed"
    cursor,       \* cursor
    notionTasks,  \* tasks of fetchNotionTasks
    notionReqs,   \* start_cursor of each notion_post issued, in order
    notionResps,  \* [ok, has_more, next_cursor] of each response received
    notionResult, \* notion of main
    tasks,        \* tasks of main
    totals,       \* totals of main
    outFile,      \* out/tasks.json: << >> when absent, else <<payload>>
    fsFailed,     \* whether fs.mkdir or fs.writeFile rejected
    normIn,       \* input of a single normalizer application
    normOut       \* its result

ghVars == <<ghPc, ghQ, ghPage, ghAll, ghReqs, ghResps, ghResult>>
notionVars == <<notionPc, cursor, notionTasks, notionReqs, notionResps, notionResult>>
mainVars == <<mainPc, exitCode, tasks, totals, outFile, fsFailed>>
normVars == <<normIn, normOut>>
vars == <<env, mainVars, ghVars, notionVars, normVars>>

\* bounds of the model
MaxNotionPages == 2  \* Notion responses with has_more = true are capped below this many requests

\* s.split(c)
RECURSIVE Split(_, _)
Split(s, c) ==
    LET hits == { i \in 1..Len(s) : s[i] = c }
    IN IF hits = {} THEN <<s>>
       ELSE LET i == CHOOSE h \in hits : \A j \in hits : h <= j
            IN <<SubSeq(s, 1, i - 1)>> \o Split(SubSeq(s, i + 1, Len(s)), c)

SUBSET_RAW == trim(Or(env.SUBSET_ENV, Str(<< >>)).v)
\* SUBSET: Null, or the set of trimmed names
SUBSET_ ==
    IF SUBSET_RAW # << >>
      THEN [k |-> "set", v |-> { trim(Split(SUBSET_RAW, ",")[i]) : i \in 1..Len(Split(SUBSET_RAW, ",")) }]
      ELSE Null
NOTION_TOKEN == Or(env.NOTION_TOKEN, Str(<< >>))
NOTION_DB == Or(env.NOTION_TASKS_DB, Str(<< >>))

\* l.map(f), with tbl the function f tabulated on the elements of l
MapWith(tbl, l) == IF DOMAIN tbl = {} THEN << >> ELSE [i \in 1..Len(l) |-> tbl[l[i]]]
\* all.map(it => ...) of fetchGithubTasks
GithubTasksOf(all) == MapWith([x \in Range(all) |-> GithubTask(x)] @@ << >>, all)

\* the tail of fetchGithubTasks: all.map(...) and the subset filter
GithubReturn(all) ==
    LET subset == SUBSET_
        \* t => SUBSET.has(t.repo)
        keep(t) == t.repo.k = "string" /\ t.repo.v \in subset.v
    IN IF subset # Null THEN SelectSeq(GithubTasksOf(all), keep) ELSE GithubTasksOf(all)

NotionReturnStrict(ts) ==
    LET subset == SUBSET_
        keep(t) == t.repo.k = "string" /\ t.repo.v \in subset.v
    IN IF subset # Null THEN SelectSeq(ts, keep) ELSE ts

\* the tail of fetchNotionTasks: the subset filter
NotionReturn(ts) ==
    LET subset == SUBSET_
        \* t => !t.repo || SUBSET.has(t.repo)
        keep(t) == ~Truthy(t.repo) \/ (t.repo.k = "string" /\ t.repo.v \in subset.v)
    IN IF subset # Null THEN SelectSeq(ts, keep) ELSE ts

IsDone(t) == t.status = "done"
NotDone(t) == t.status # "done"
\* reduce((s, t) => s + (t.points || 0), 0)
\* (the sum over ts[lo..hi], split in halves to keep the evaluation shallow)
RECURSIVE Reduce(_, _, _)
Reduce(ts, lo, hi) ==
    IF lo > hi THEN 0
    ELSE IF lo = hi THEN (IF ts[lo].points = 0 THEN 0 ELSE ts[lo].points)
    ELSE Reduce(ts, lo, (lo + hi) \div 2) + Reduce(ts, (lo + hi) \div 2 + 1, hi)
SumPoints(ts) == Reduce(ts, 1, Len(ts))

TotalsAllPoints(ts) ==
    [ open |-> Len(SelectSeq(ts, NotDone)),
      done |-> Len(SelectSeq(ts, IsDone)),
      xp   |-> SumPoints(ts) ]

Totals(ts) ==
    [ open |-> Len(SelectSeq(ts, NotDone)),
      done |-> Len(SelectSeq(ts, IsDone)),
      xp   |-> SumPoints(SelectSeq(ts, IsDone)) ]

\* -------------------------------------------------------------------------
\* inputs of the run
GH_URL(repo) == <<"h","t","t","p","s",":","/","/","a","p","i",".","g","i","t","h","u","b",".","c","o","m","/","r","e","p","o","s","/","j","a","i","-","n","e","x","u","s","/">> \o repo

IssueA == [repository_url |-> GH_URL(<<"r","e","p","o","A">>), labels |-> <<<<"b","u","g">>, <<"p",":","3">>>>,
           pull_request |-> FALSE, state |-> "open"]
PullB == [repository_url |-> GH_URL(<<"r","e","p","o","B">>), labels |-> <<<<"f","e","a","t","u","r","e">>>>,
          pull_request |-> TRUE, state |-> "closed"]

\* a page of exactly per_page items
FullPage(a, b) == [i \in 1..PerPage |-> IF i % 2 = 1 THEN a ELSE b]

\* data.items of a successful gh_get: empty, shorter than per_page, or full
GhPages == { << >>, <<IssueA, PullB>>, FullPage(PullB, IssueA) }

\* the outcomes of one gh_get: a non-ok response (gh_get throws), or data
GhResponses ==
    { [ok |-> FALSE, items |-> << >>] } \cup { [ok |-> TRUE, items |-> l] : l \in GhPages }

SelectProp(name) == [type |-> "select", select |-> [name |-> name]]
StatusProp(name) == [type |-> "status", status |-> [name |-> name]]
NumberProp(n) == [type |-> "number", number |-> Num(n)]

PageDoneA == [properties |-> [Status |-> StatusProp(<<"D","o","n","e">>), Repo |-> SelectProp(<<"r","e","p","o","A">>),
                              Points |-> NumberProp(5), Progress |-> NumberProp(50 * ProgressOne)]]
PageOpen == [properties |-> [Status |-> StatusProp(<<"I","n"," ","p","r","o","g","r","e","s","s">>), Points |-> NumberProp(0)]]
PageShippedOther == [properties |-> [Status |-> SelectProp(<<"S","h","i","p","p","e","d">>), Repo |-> SelectProp(<<"R","e","p","o","A">>)]]

\* data.results of a successful notion_post
NotionResults == { << >>, <<PageShippedOther, PageOpen, PageDoneA>> }

Cursors == { Str(<<"c","1">>), Str(<<"c","2">>) }

\* the outcomes of one notion_post: a non-ok response (notion_post throws), or data
NotionResponses ==
    { [ok |-> FALSE, results |-> << >>, has_more |-> FALSE, next_cursor |-> Null] }
    \cup { [ok |-> TRUE, results |-> l, has_more |-> FALSE, next_cursor |-> Null] :
             l \in NotionResults }
    \cup { [ok |-> TRUE, results |-> l, has_more |-> TRUE, next_cursor |-> c] :
             l \in NotionResults, c \in Cursors }

Envs ==
    [ GH_TOKEN : { Undef, Str(<< >>), Str(<<"g","h","s">>) },
      NOTION_TOKEN : { Undef, Str(<<"s","e","c","r","e","t">>) },
      NOTION_TASKS_DB : { Undef, Str(<<"d","b">>) },
      SUBSET_ENV : { Undef, Str(<<" ","r","e","p","o","A"," ",","," ","r","e","p","o","C"," ">>) } ]

NoTotals == [open |-> 0, done |-> 0, xp |-> 0]

Init ==
    /\ env \in Envs
    /\ mainPc = "start" /\ exitCode = -1
    /\ tasks = << >> /\ totals = NoTotals /\ outFile = << >> /\ fsFailed = FALSE
    /\ ghPc = "idle" /\ ghQ = 0 /\ ghPage = 0 /\ ghAll = << >>
    /\ ghReqs = << >> /\ ghResps = << >> /\ ghResult = << >>
    /\ notionPc = "idle" /\ cursor = Undef /\ notionTasks = << >>
    /\ notionReqs = << >> /\ notionResps = << >> /\ notionResult = << >>
    /\ normIn = << >> /\ normOut = << >>

\* the test of ensure: if (!val)
ensureFailsUndefined(val) == val = Undef
ensureFails(val) == ~Truthy(val)

\* ensure(GH_TOKEN, "GH_TOKEN")
Ensure ==
    /\ mainPc = "start"
    /\ IF ensureFails(env.GH_TOKEN)
         THEN mainPc' = "exited" /\ exitCode' = 2
         ELSE mainPc' = "launch" /\ UNCHANGED exitCode
    /\ UNCHANGED <<env, tasks, totals, outFile, fsFailed, ghVars, notionVars, normVars>>

\* fetchGithubTasks() up to the first await: the first search requests page 1
LaunchGithub ==
    /\ mainPc = "launch"
    /\ mainPc' = "launchNotion"
    /\ ghPc' = "waiting" /\ ghQ' = 1 /\ ghPage' = 1
    /\ ghReqs' = Append(ghReqs, [q |-> 1, page |-> 1])
    /\ UNCHANGED <<env, exitCode, tasks, totals, outFile, fsFailed, ghAll, ghResps, ghResult,
                   notionVars, normVars>>

\* fetchNotionTasks() up to the first await, then Promise.all and the await of main
LaunchNotion ==
    /\ mainPc = "launchNotion"
    /\ mainPc' = "await"
    /\ IF ~Truthy(NOTION_TOKEN) \/ ~Truthy(NOTION_DB)
         THEN /\ notionPc' = "done"
              /\ UNCHANGED notionReqs
         ELSE /\ notionPc' = "waiting"
              /\ notionReqs' = Append(notionReqs, cursor)
    /\ UNCHANGED <<env, exitCode, tasks, totals, outFile, fsFailed, ghVars, cursor, notionTasks,
                   notionResps, notionResult, normVars>>

\* the tests of the for loop in search after a page of n items: neither break is taken
\* and page++ leaves page <= 2
MorePagesNoShortBreak(n, page) == n # 0 /\ page + 1 <= MaxPages
MorePages(n, page) == n # 0 /\ ~(n < PerPage) /\ page + 1 <= MaxPages

\* the value of .catch(e => { console.warn(...); return []; }) on fetchGithubTasks()
GithubCatchPartial == GithubReturn(ghAll)
GithubCatch == << >>

\* the value of .catch(e => { console.warn(...); return []; }) on fetchNotionTasks()
NotionCatch == << >>

\* cursor = data.next_cursor
NextCursorStale(r) == cursor
NextCursor(r) == r.next_cursor

\* the continuation of search after await gh_get(...), through whatever follows
\* synchronously: the next page, the second search, or the return of fetchGithubTasks
GithubResponse ==
    /\ mainPc = "await" /\ ghPc = "waiting"
    /\ \E r \in GhResponses :
         IF ~r.ok
           THEN \* gh_get throws; the .catch of main yields []
                /\ ghPc' = "failed" /\ ghResult' = GithubCatch
                /\ ghResps' = Append(ghResps, -1)
                /\ UNCHANGED <<ghQ, ghPage, ghAll, ghReqs>>
           ELSE LET n == Len(r.items)
                    all == IF n = 0 THEN ghAll ELSE ghAll \o r.items
                    more == MorePages(n, ghPage)
                IN /\ ghResps' = Append(ghResps, n)
                   /\ ghAll' = all
                   /\ IF more
                        THEN /\ ghPage' = ghPage + 1
                             /\ ghReqs' = Append(ghReqs, [q |-> ghQ, page |-> ghPage + 1])
                             /\ UNCHANGED <<ghPc, ghQ, ghResult>>
                        ELSE IF ghQ = 1
                        THEN /\ ghQ' = 2 /\ ghPage' = 1
                             /\ ghReqs' = Append(ghReqs, [q |-> 2, page |-> 1])
                             /\ UNCHANGED <<ghPc, ghResult>>
                        ELSE /\ ghPc' = "done"
                             /\ ghResult' = GithubReturn(all)
                             /\ UNCHANGED <<ghQ, ghPage, ghReqs>>
    /\ UNCHANGED <<env, mainVars, notionVars, normVars>>

\* the continuation of fetchNotionTasks after await notion_post(...)
NotionResponse ==
    /\ mainPc = "await" /\ notionPc = "waiting"
    /\ \E r \in NotionResponses :
         /\ r.has_more => Len(notionReqs) < MaxNotionPages
         /\ notionResps' = Append(notionResps, [ok |-> r.ok, has_more |-> r.has_more,
                                                next_cursor |-> r.next_cursor])
         /\ IF ~r.ok
              THEN \* notion_post throws; the .catch of main yields []
                   /\ notionPc' = "failed" /\ notionResult' = NotionCatch
                   /\ UNCHANGED <<cursor, notionTasks, notionReqs>>
              ELSE LET ts == notionTasks \o [i \in 1..Len(r.results) |-> NotionTask(r.results[i])]
                   IN /\ notionTasks' = ts
                      /\ IF ~r.has_more
                           THEN /\ notionPc' = "done"
                                /\ notionResult' = NotionReturn(ts)
                                /\ UNCHANGED <<cursor, notionReqs>>
                           ELSE /\ cursor' = NextCursor(r)
                                /\ notionReqs' = Append(notionReqs, NextCursor(r))
                                /\ UNCHANGED <<notionPc, notionResult>>
    /\ UNCHANGED <<env, mainVars, ghVars, normVars>>

Settled(pc) == pc \in {"done", "failed"}

\* Promise.all of the two caught promises resolves
JoinReadyEither == Settled(ghPc) \/ Settled(notionPc)
JoinReady == Settled(ghPc) /\ Settled(notionPc)

\* the continuation of main after await Promise.all([...]), up to await fs.mkdir
Join ==
    /\ mainPc = "await" /\ JoinReady
    /\ tasks' = ghResult \o notionResult
    /\ totals' = Totals(ghResult \o notionResult)
    /\ mainPc' = "mkdir"
    /\ UNCHANGED <<env, exitCode, outFile, fsFailed, ghVars, notionVars, normVars>>

\* fs.mkdir settles: writeFile is issued, or the rejection reaches process.exit(1)
Mkdir ==
    /\ mainPc = "mkdir"
    /\ \E ok \in BOOLEAN :
         IF ok THEN mainPc' = "write" /\ UNCHANGED <<exitCode, fsFailed>>
               ELSE mainPc' = "exited" /\ exitCode' = 1 /\ fsFailed' = TRUE
    /\ UNCHANGED <<env, tasks, totals, outFile, ghVars, notionVars, normVars>>

\* fs.writeFile settles: the payload is on disk and the process ends with status 0,
\* or the rejection reaches process.exit(1)
WriteFile ==
    /\ mainPc = "write"
    /\ \E ok \in BOOLEAN :
         IF ok THEN /\ outFile' = <<[totals |-> totals, tasks |-> tasks]>>
                    /\ mainPc' = "exited" /\ exitCode' = 0
                    /\ UNCHANGED fsFailed
               ELSE /\ mainPc' = "exited" /\ exitCode' = 1 /\ fsFailed' = TRUE
                    /\ UNCHANGED outFile
    /\ UNCHANGED <<env, tasks, totals, ghVars, notionVars, normVars>>

Next ==
    \/ Ensure
    \/ LaunchGithub
    \/ LaunchNotion
    \/ GithubResponse
    \/ NotionResponse
    \/ Join
    \/ Mkdir
    \/ WriteFile

Spec == Init /\ [][Next]_vars

(***************************************************************************)
(* The normalizers applied to one record each, over a wider set of inputs. *)
(***************************************************************************)
MaxLabels == 2  \* longest label list drawn from LabelPool

RECURSIVE SeqsUpTo(_, _)
SeqsUpTo(S, n) ==
    IF n = 0 THEN { << >> }
    ELSE SeqsUpTo(S, n - 1) \cup { Append(l, x) : l \in SeqsUpTo(S, n - 1), x \in S }

LabelPool ==
    { <<"b","u","g">>, <<"h","o","t","f","i","x">>, <<"d","o","c","s">>, <<"e","n","h","a","n","c","e","m","e","n","t">>, <<"d","e","v","o","p","s">>, <<"c","h","o","r","e">>, <<"w","i","p">>,
      <<"p",":","3">>, <<"P","0">>, <<"p","o","i","n","t","s","-","3">>, <<"5"," ","p","o","i","n","t","s">>, <<"2"," ","P","o","i","n","t">>, <<"p",":","3","x">>, <<"s","p","r","i","n","t"," ","5">> }

LongLabels ==
    { <<<<"a">>, <<"b">>, <<"p",":","3">>, <<"c">>, <<"d">>, <<"e">>, <<"f">>, <<"g">>, <<"h">>>>,
      <<<<"a">>, <<"1","0"," ","p","o","i","n","t","s">>, <<"b","u","g">>, <<"c">>, <<"d">>, <<"e">>, <<"f">>>>,
      <<<<"p","1">>, <<"p","2">>, <<"p","3">>, <<"p","4">>, <<"p","5">>, <<"p","6">>, <<"p","7">>>> }

GhItems ==
    [ repository_url : { GH_URL(<<"r","e","p","o","A">>) },
      labels : SeqsUpTo(LabelPool, MaxLabels) \cup LongLabels,
      pull_request : BOOLEAN,
      state : { "open", "closed" } ]

Absent == [absent |-> TRUE]
RichText(s) == [type |-> "rich_text", rich_text |-> <<[plain_text |-> s]>>]
MultiSelect(names) == [type |-> "multi_select", multi_select |-> [i \in 1..Len(names) |-> [name |-> names[i]]]]
Field(name, v) == IF v = Absent THEN << >> ELSE (name :> v)

StatusOpts == { Absent, StatusProp(<<"D","o","n","e">>), StatusProp(<<"I","n"," ","p","r","o","g","r","e","s","s">>) }
StatusLowerOpts == { Absent, SelectProp(<<"U+2705">>) }
TypeOpts == { Absent, SelectProp(<<"B","u","g">>), SelectProp(<<"E","p","i","c">>), [type |-> "select", select |-> Null] }
RepoOpts == { Absent, MultiSelect(<<<<"r","e","p","o","B">>, <<"r","e","p","o","A">>>>), MultiSelect(<< >>) }
RepositoryOpts == { Absent, RichText(<<" ","r","e","p","o","C"," ">>) }
TagsOpts == { Absent, RichText(<<"x">>),
              MultiSelect(<<<<"a">>, <<"b">>, <<"c">>, <<"d">>, <<"e">>, <<"f">>, <<"g">>, <<"h">>>>) }
PointsOpts == { Absent, NumberProp(0), NumberProp(-3), RichText(<<"a","b","c">>) }
PtsOpts == { Absent, NumberProp(8) }
\* Progress as a Notion number property (-0.5, 0, 0.25, 1, 1.001, 1.002, 50, 150, or
\* empty), or as a text property ("50", "abc"), like Points above
ProgressOpts ==
    { Absent, [type |-> "number", number |-> Null], RichText(<<"5","0">>), RichText(<<"a","b","c">>) }
    \cup { NumberProp(n) : n \in { -50000, 0, 25000, 100000, 100100, 100200, 5000000, 15000000 } }

NotionPages ==
    { [properties |->
         Field("Status", st) @@ Field("status", sl) @@ Field("Type", ty) @@ Field("Repo", rp)
         @@ Field("Repository", ry) @@ Field("Tags", tg) @@ Field("Points", pt)
         @@ Field("pts", ps) @@ Field("Progress", pg)] :
        st \in StatusOpts, sl \in StatusLowerOpts, ty \in TypeOpts, rp \in RepoOpts,
        ry \in RepositoryOpts, tg \in TagsOpts, pt \in PointsOpts, ps \in PtsOpts,
        pg \in ProgressOpts }

InitNorm ==
    /\ env = [GH_TOKEN |-> Str(<<"g","h","s">>), NOTION_TOKEN |-> Undef,
              NOTION_TASKS_DB |-> Undef, SUBSET_ENV |-> Undef]
    /\ mainPc = "norm" /\ exitCode = -1
    /\ tasks = << >> /\ totals = NoTotals /\ outFile = << >> /\ fsFailed = FALSE
    /\ ghPc = "idle" /\ ghQ = 0 /\ ghPage = 0 /\ ghAll = << >>
    /\ ghReqs = << >> /\ ghResps = << >> /\ ghResult = << >>
    /\ notionPc = "idle" /\ cursor = Undef /\ notionTasks = << >>
    /\ notionReqs = << >> /\ notionResps = << >> /\ notionResult = << >>
    /\ normIn \in { <<[kind |-> "github", raw |-> it]>> : it \in GhItems }
                  \cup { <<[kind |-> "notion", raw |-> pg]>> : pg \in NotionPages }
    /\ normOut = << >>

NormalizeGithub ==
    /\ mainPc = "norm" /\ normOut = << >> /\ normIn[1].kind = "github"
    /\ normOut' = <<GithubTask(normIn[1].raw)>>
    /\ UNCHANGED <<env, mainVars, ghVars, notionVars, normIn>>

NormalizeNotion ==
    /\ mainPc = "norm" /\ normOut = << >> /\ normIn[1].kind = "notion"
    /\ normOut' = <<NotionTask(normIn[1].raw)>>
    /\ UNCHANGED <<env, mainVars, ghVars, notionVars, normIn>>

NextNorm ==
    \/ NormalizeGithub
    \/ NormalizeNotion

SpecNorm == InitNorm /\ [][NextNorm]_vars

(***************************************************************************)
(* Properties                                                              *)
(***************************************************************************)
Exited(code) == mainPc = "exited" /\ exitCode = code
NotionConfigured == Truthy(NOTION_TOKEN) /\ Truthy(NOTION_DB)

\* the repo allow-list rule: the records, in order, that have no repo, or any record
\* when there is no allow-list, or whose repo is on the list
AllowedOf(ts) ==
    LET list == SUBSET_
        Allowed(t) == t.repo = Undef \/ list = Null \/ t.repo.v \in list.v
    IN SelectSeq(ts, Allowed)

\* what a source that completed contributes: its normalized records, filtered
GithubRecords == AllowedOf(GithubTasksOf(ghAll))
NotionRecords == AllowedOf(notionTasks)

NumOpen(ts) == Cardinality({ i \in 1..Len(ts) : ts[i].status # "done" })
NumDone(ts) == Cardinality({ i \in 1..Len(ts) : ts[i].status = "done" })
\* the points of the done tasks among ts[lo..hi]
RECURSIVE ScoreOf(_, _, _)
ScoreOf(ts, lo, hi) ==
    IF lo > hi THEN 0
    ELSE IF lo = hi THEN (IF ts[lo].status = "done" THEN ts[lo].points ELSE 0)
    ELSE ScoreOf(ts, lo, (lo + hi) \div 2) + ScoreOf(ts, (lo + hi) \div 2 + 1, hi)
Score(ts) == ScoreOf(ts, 1, Len(ts))

\* C1: when GH_TOKEN is present and the file system calls succeed, the run ends with
\* status 0 and the payload written; a source whose fetch failed (or Notion when it is
\* not configured) contributes no record, so that the payload's tasks are what the
\* fetchers that completed returned and the totals are those of these tasks.
C1_DegradeToEmpty ==
    (mainPc = "exited" /\ Truthy(env.GH_TOKEN) /\ ~fsFailed) =>
        LET gh == IF ghPc = "done" THEN ghResult ELSE << >>
            notion == IF NotionConfigured /\ notionPc = "done" THEN notionResult ELSE << >>
        IN /\ exitCode = 0
           /\ outFile # << >>
           /\ outFile[1].tasks = gh \o notion
           /\ outFile[1].totals =
                [open |-> NumOpen(gh \o notion), done |-> NumDone(gh \o notion), xp |-> Score(gh \o notion)]

\* C1 witness: the GitHub fetch failed on a later request after pages had been
\* collected, Notion delivered records, and the run ended with status 0.
C1_Witness ==
    /\ Exited(0) /\ ghPc = "failed" /\ Len(ghAll) > 0
    /\ notionPc = "done" /\ outFile # << >> /\ Len(outFile[1].tasks) > 0

\* C2: without GH_TOKEN the process exits with a non-zero status, no request to
\* either source has been issued and the output document is not written.
C2_MissingTokenExits ==
    ~Truthy(env.GH_TOKEN) /\ mainPc # "norm" =>
        /\ mainPc \in {"start", "exited"}
        /\ mainPc = "exited" => exitCode # 0
        /\ ghReqs = << >> /\ notionReqs = << >>
        /\ outFile = << >>

\* C2 witness: the token is an empty string and the process has exited with status 2.
C2_Witness == env.GH_TOKEN = Str(<< >>) /\ Exited(2)

\* C3: every normalized Task has points >= 1, 0 <= progress <= 1 and at most 6 tags.
C3_TaskBounds ==
    \A i \in 1..Len(normOut) :
        /\ normOut[i].points >= 1
        /\ normOut[i].progress.k = "number"
        /\ 0 <= normOut[i].progress.v /\ normOut[i].progress.v <= ProgressOne
        /\ Len(normOut[i].tags) <= 6

TypeEnum == { <<"b","u","g">>, <<"d","o","c","s">>, <<"f","e","a","t","u","r","e">>, <<"i","n","f","r","a">>, <<"t","a","s","k">>, <<"p","r">>, <<"i","s","s","u","e">> }

\* C4: every normalized Task, from GitHub or from Notion, has a type among
\* bug, docs, feature, infra, task, pr, issue.
C4_TypeInEnum == \A i \in 1..Len(normOut) : normOut[i].type \in TypeEnum

\* C5: in the written payload totals.open counts the tasks that are not done,
\* totals.done those that are done (both add up to the number of tasks), and
\* totals.xp is the sum of the points of the done tasks only.
C5_TotalsFromTasks ==
    outFile # << >> =>
        LET doc == outFile[1]
        IN /\ doc.totals.open = NumOpen(doc.tasks)
           /\ doc.totals.done = NumDone(doc.tasks)
           /\ doc.totals.open + doc.totals.done = Len(doc.tasks)
           /\ doc.totals.xp = Score(doc.tasks)

\* C5 witness: a payload with open and done tasks, some open task carrying more than
\* one point and the done tasks more than one point each on average.
C5_Witness ==
    /\ outFile # << >>
    /\ outFile[1].totals.open > 0 /\ outFile[1].totals.done > 0
    /\ outFile[1].totals.xp > outFile[1].totals.done
    /\ \E i \in 1..Len(outFile[1].tasks) :
         outFile[1].tasks[i].status = "open" /\ outFile[1].tasks[i].points > 1

\* C6: what each fetcher returns is its normalized records, in fetch order, keeping a
\* record exactly when it has no repo, or there is no allow-list, or its repo is on
\* the allow-list (exact match).
C6_AllowList ==
    /\ ghPc = "done" => ghResult = GithubRecords
    /\ notionPc = "done" => notionResult = NotionRecords

\* C6 witness: with an allow-list, both fetchers returned; each dropped a record, and
\* Notion kept a record without a repo and one with a listed repo.
C6_Witness ==
    /\ SUBSET_ # Null /\ ghPc = "done" /\ notionPc = "done"
    /\ 0 < Len(ghResult) /\ Len(ghResult) < Len(ghAll)
    /\ Len(notionResult) < Len(notionTasks)
    /\ \E i \in 1..Len(notionResult) : notionResult[i].repo = Undef
    /\ \E i \in 1..Len(notionResult) : notionResult[i].repo # Undef

Merged == mainPc \in {"mkdir", "write"} \/ Exited(0) \/ Exited(1)

\* the fetcher ran its pagination to the end
GithubFinished ==
    /\ Len(ghResps) = Len(ghReqs)
    /\ ghReqs[Len(ghReqs)].q = 2
    /\ ghResps[Len(ghResps)] < PerPage \/ ghReqs[Len(ghReqs)].page = MaxPages
NotionFinished ==
    \/ ~NotionConfigured
    \/ /\ Len(notionResps) = Len(notionReqs)
       /\ ~notionResps[Len(notionResps)].has_more

\* C7: both fetchers are started before main awaits; the merge happens only after
\* both have settled; and the fetcher that did not fail has finished its pagination
\* and contributes all its records, whatever happened to the other.
C7_FanOutFanIn ==
    /\ (mainPc = "await" \/ Merged) => ghPc # "idle" /\ notionPc # "idle"
    /\ Merged =>
         /\ Settled(ghPc) /\ Settled(notionPc)
         /\ ghPc = "done" => GithubFinished
         /\ notionPc = "done" => NotionFinished
         /\ tasks = (IF ghPc = "done" THEN ghResult ELSE << >>)
                    \o (IF notionPc = "done" THEN notionResult ELSE << >>)

\* C7 witness: the GitHub fetch failed, Notion went on over two pages, and the merge
\* holds Notion's records.
C7_Witness ==
    /\ mainPc = "mkdir" /\ ghPc = "failed" /\ notionPc = "done"
    /\ Len(notionResps) >= 2 /\ Len(tasks) > 0 /\ tasks = notionResult

\* the number of items the responses to search q delivered
RECURSIVE Delivered(_, _)
Delivered(q, i) ==
    IF i = 0 THEN 0
    ELSE Delivered(q, i - 1) + (IF ghReqs[i].q = q /\ ghResps[i] > 0 THEN ghResps[i] ELSE 0)

\* C8: GitHub requests are issued one at a time: issues page 1 first; page 2 of a
\* search follows exactly a page 1 of that search that returned 100 items; the pull
\* request search starts after the issue search ended; at most 2 pages and 200 items
\* per search.
C8_GithubPagination ==
    /\ Len(ghResps) <= Len(ghReqs) /\ Len(ghReqs) <= Len(ghResps) + 1
    /\ ghReqs # << >> => ghReqs[1] = [q |-> 1, page |-> 1]
    /\ \A i \in 1..Len(ghReqs) :
         /\ ghReqs[i].page \in 1..2
         /\ ghReqs[i].page = 2 =>
              /\ i > 1 /\ ghReqs[i - 1] = [q |-> ghReqs[i].q, page |-> 1]
              /\ ghResps[i - 1] = 100
         /\ (i > 1 /\ ghReqs[i].page = 1) =>
              /\ ghReqs[i].q = 2 /\ ghReqs[i - 1].q = 1
              /\ ghResps[i - 1] >= 0
              /\ ghReqs[i - 1].page = 1 => ghResps[i - 1] # 100
    /\ \A i \in 1..Len(ghResps) :
         (ghReqs[i].page = 1 /\ ghResps[i] = 100) =>
              Len(ghReqs) > i /\ ghReqs[i + 1] = [q |-> ghReqs[i].q, page |-> 2]
    /\ \A q \in 1..2 :
         /\ Cardinality({ i \in 1..Len(ghReqs) : ghReqs[i].q = q }) <= 2
         /\ Delivered(q, Len(ghResps)) <= 200
    /\ Len(ghAll) = Delivered(1, Len(ghResps)) + Delivered(2, Len(ghResps))

\* C8 witness: one search stopped after a short first page, the other went on to
\* page 2 after a full first page.
C8_Witness ==
    /\ ghPc = "done"
    /\ \E i \in 1..Len(ghReqs) : ghReqs[i].page = 2
    /\ \E i \in 1..Len(ghResps) : ghReqs[i].page = 1 /\ ghResps[i] \in 1..99

\* C9: with Notion configured, query requests are issued one at a time, the first
\* without cursor, each later one with the next_cursor of the response before it; a
\* response with has_more goes on to the next request, and the first failed response
\* or response without has_more ends the fetcher with no further request.
C9_NotionPagination ==
    /\ ~NotionConfigured => notionReqs = << >>
    /\ Len(notionResps) <= Len(notionReqs) /\ Len(notionReqs) <= Len(notionResps) + 1
    /\ notionReqs # << >> => notionReqs[1] = Undef
    /\ \A i \in 2..Len(notionReqs) :
         /\ notionResps[i - 1].ok /\ notionResps[i - 1].has_more
         /\ notionReqs[i] = notionResps[i - 1].next_cursor
    /\ \A i \in 1..Len(notionResps) :
         IF notionResps[i].ok /\ notionResps[i].has_more
           THEN Len(notionReqs) > i
           ELSE Len(notionReqs) = i /\ Settled(notionPc)
    /\ notionPc = "waiting" => Len(notionReqs) = Len(notionResps) + 1

\* C9 witness: two requests were made, the second with the cursor c2 of the first
\* response, and the fetcher ended on a response without has_more.
C9_Witness ==
    /\ notionPc = "done" /\ Len(notionReqs) = 2
    /\ notionReqs[2] = Str(<<"c","2">>) /\ ~notionResps[2].has_more

\* a label that matches one of the three points patterns
IsPointsLabel(n) == PointsMatch(toLowerCase(n)) # << >>
NotPointsLabel(n) == ~IsPointsLabel(n)

\* C10: the tags of a GitHub task are the label names, in order, without the labels
\* that match one of the three points patterns, cut to the first 6.
C10_TagsDropPointsLabels ==
    \A i \in 1..Len(normOut) :
        normIn[1].kind = "github" =>
            normOut[i].tags = Slice(SelectSeq(normIn[1].raw.labels, NotPointsLabel), 6)

====
